---- MODULE Spec2Model ----
(***************************************************************************)
(* A model of duplicate-finder.py: the Clusterer (an incremental builder   *)
(* of connected components that shares one mutable set object between the  *)
(* dictionary entries of a cluster), the scan pipeline duplicate_finder()  *)
(* and the persistent similarity cache.                                    *)
(***************************************************************************)
EXTENDS Integers, Sequences, FiniteSets

\* Keys handed to a stand-alone Clusterer are 1..MaxKeys.
MaxKeys == 3

Keys == 1 .. MaxKeys

(***************************************************************************)
(* Clusterer.  Python's dict d maps a key to a set OBJECT; several keys    *)
(* share one object.  An object is an identity (a natural number) and      *)
(* heap maps each identity to the object's current contents, so that       *)
(* mutating an object through one key is seen through every alias.         *)
(***************************************************************************)
EmptyMap == [x \in {} |-> {}]

\* Clusterer.__init__: self.d = dict()
NewClusterer == [d |-> EmptyMap, heap |-> EmptyMap]

\* The identity given to a newly constructed set object.
FreshObj(c) == Cardinality(DOMAIN c.heap) + 1

\* d[k] = o, for a key that may be new to d.
Bind(d, k, o) == [x \in DOMAIN d \cup {k} |-> IF x = k THEN o ELSE d[x]]

\* heap[o] = s, for an object that may be new to heap.
Store(heap, o, s) == [x \in DOMAIN heap \cup {o} |-> IF x = o THEN s ELSE heap[x]]

\* A variant of AddPairBoth that re-points only b, not every member of sb.
AddPairBothOnlyB(c, a, b) ==
    LET sa == c.d[a]
        sb == c.d[b]
    IN  [d |-> Bind(c.d, b, sa),
         heap |-> Store(c.heap, sa, c.heap[sa] \cup c.heap[sb])]

\* Clusterer.add_pair, both keys known: sa.update(sb); for i in sb: d[i] = sa
AddPairBoth(c, a, b) ==
    LET sa == c.d[a]
        sb == c.d[b]
        heap1 == Store(c.heap, sa, c.heap[sa] \cup c.heap[sb])
        d1 == [x \in DOMAIN c.d \cup heap1[sb] |->
                  IF x \in heap1[sb] THEN sa ELSE c.d[x]]
    IN  [d |-> d1, heap |-> heap1]

\* A variant of AddPairOne that puts the pair in a set of its own instead of
\* adding the new key to the known key's set.
AddPairOneFresh(c, known, new) ==
    LET s == FreshObj(c)
    IN  [d |-> Bind(c.d, new, s), heap |-> Store(c.heap, s, {known, new})]

\* Clusterer.add_pair, only `known` is in d: s = d[known]; s.add(new); d[new] = s
AddPairOne(c, known, new) ==
    LET s == c.d[known]
    IN  [d |-> Bind(c.d, new, s),
         heap |-> Store(c.heap, s, c.heap[s] \cup {new})]

\* Clusterer.add_pair, neither key known: s = {a, b}; d[a] = s; d[b] = s
AddPairNew(c, a, b) ==
    LET s == FreshObj(c)
    IN  [d |-> Bind(Bind(c.d, a, s), b, s),
         heap |-> Store(c.heap, s, {a, b})]

\* Clusterer.add_pair(a, b)
add_pair(c, a, b) ==
    IF a \in DOMAIN c.d /\ b \in DOMAIN c.d THEN AddPairBoth(c, a, b)
    ELSE IF a \in DOMAIN c.d THEN AddPairOne(c, a, b)
    ELSE IF b \in DOMAIN c.d THEN AddPairOne(c, b, a)
    ELSE AddPairNew(c, a, b)

\* A variant of add_singular that assigns d[a] = {a} even when a is known.
add_singular_overwrite(c, a) ==
    LET s == FreshObj(c)
    IN  [d |-> Bind(c.d, a, s), heap |-> Store(c.heap, s, {a})]

\* Clusterer.add_singular(a): self.d.setdefault(a, {a})
add_singular(c, a) ==
    IF a \in DOMAIN c.d THEN c
    ELSE LET s == FreshObj(c)
         IN  [d |-> Bind(c.d, a, s), heap |-> Store(c.heap, s, {a})]

\* Clusterer.compile(): frozenset(frozenset(s) for s in self.d.values())
compile(c) == { c.heap[c.d[k]] : k \in DOMAIN c.d }


(***************************************************************************)
(* Strings.  A Python str is a sequence of code points; str comparison and *)
(* sorted() on str are lexicographic on the code points.                   *)
(***************************************************************************)
RECURSIVE LexLess(_, _)
LexLess(s, t) ==
    IF t = <<>> THEN FALSE
    ELSE IF s = <<>> THEN TRUE
    ELSE IF Head(s) # Head(t) THEN Head(s) < Head(t)
    ELSE LexLess(Tail(s), Tail(t))

Range(seq) == {seq[i] : i \in 1 .. Len(seq)}

\* The positions of code point ch in s.
Positions(s, ch) == {i \in 1 .. Len(s) : s[i] = ch}

Last(S) == CHOOSE i \in S : \A j \in S : j <= i

\* os.path.normpath on a path produced by os.walk("."): the leading "./" goes.
normpath(filepath) ==
    IF Len(filepath) >= 2 /\ filepath[1] = 46 /\ filepath[2] = 47
    THEN SubSeq(filepath, 3, Len(filepath))
    ELSE filepath

\* os.path.basename: what follows the last "/".
basename(filepath) ==
    IF Positions(filepath, 47) = {} THEN filepath
    ELSE SubSeq(filepath, Last(Positions(filepath, 47)) + 1, Len(filepath))

\* os.path.splitext: split at the last ".", unless it leads the name.
splitext(filename) ==
    LET dots == Positions(filename, 46) \ {1}
    IN  IF dots = {} THEN <<filename, <<>>>>
        ELSE <<SubSeq(filename, 1, Last(dots) - 1),
               SubSeq(filename, Last(dots), Len(filename))>>

\* The code points shlex.quote leaves alone: [a-zA-Z0-9_@%+=:,./-]
ShellSafe ==
    (48 .. 57) \cup (65 .. 90) \cup (97 .. 122)
        \cup {95, 64, 37, 43, 61, 58, 44, 46, 47, 45}

RECURSIVE EscapeQuotes(_)
EscapeQuotes(s) ==
    IF s = <<>> THEN <<>>
    ELSE (IF Head(s) = 39 THEN <<39, 34, 39, 34, 39>> ELSE <<Head(s)>>)
             \o EscapeQuotes(Tail(s))

\* shlex.quote
quote(s) ==
    IF s = <<>> THEN <<39, 39>>
    ELSE IF \A i \in 1 .. Len(s) : s[i] \in ShellSafe THEN s
    ELSE <<39>> \o EscapeQuotes(s) \o <<39>>

(***************************************************************************)
(* The file system that is scanned.  A file has a path and a content; the  *)
(* content decides the MD5 digest and, for an image, the perceptual hash.  *)
(***************************************************************************)
\* At most MaxFiles files are listed by a scan.
MaxFiles == 3

\* "./b.jpg", "./a.jpg", "./a b.png", "./c.txt"
PathUniverse ==
    { <<46, 47, 98, 46, 106, 112, 103>>,
      <<46, 47, 97, 46, 106, 112, 103>>,
      <<46, 47, 97, 32, 98, 46, 112, 110, 103>>,
      <<46, 47, 99, 46, 116, 120, 116>> }

\* The contents a file may have, and the perceptual hash isearch.phash gives
\* each (3-bit values: 000, 001, 011, 001; contents 5 and 6 are two pictures
\* of another scene, 110 both).
Contents == 1 .. 4
PhashOf(c) == <<0, 1, 3, 1, 6, 6>>[c]

\* The digest is HEX_DIGEST_LEN hexadecimal digits.
HEX_DIGEST_LEN == 32

\* hashlib.md5(bytes).hexdigest(): a fixed injective table from contents to
\* digests, whose lexicographic order is not the order of the contents.
Md5Hex(c) ==
    [i \in 1 .. HEX_DIGEST_LEN |-> IF i = 1 THEN (5 * c) % 16 ELSE (c + i) % 16]

\* compute_hash(path)
compute_hash(fsys, filepath) == Md5Hex(fsys[filepath])

\* (".jpg", ".png", ".webp")
ImageExtensions ==
    { <<46, 106, 112, 103>>, <<46, 112, 110, 103>>, <<46, 119, 101, 98, 112>> }

\* File.__init__(filepath), when nothing raises.  fsys maps a listed path to
\* its content.
File(fsys, filepath) ==
    LET parts == splitext(basename(filepath))
        base == [path |-> normpath(filepath),
                 hash |-> compute_hash(fsys, filepath),
                 name |-> parts[1],
                 extension |-> parts[2],
                 isimage |-> parts[2] \in ImageExtensions]
    IN  IF base.isimage
        THEN [path |-> base.path, hash |-> base.hash, name |-> base.name,
              extension |-> base.extension, isimage |-> TRUE,
              phash |-> PhashOf(fsys[filepath])]
        ELSE base

\* File.__lt__
FileLess(f, g) == LexLess(f.path, g.path)

\* File.__str__
str(f) == quote(f.path)

\* sorted(files) for a set of File objects (distinct paths).
RECURSIVE sorted(_)
sorted(S) ==
    IF S = {} THEN <<>>
    ELSE LET m == CHOOSE f \in S : \A g \in S \ {f} : FileLess(f, g)
         IN  <<m>> \o sorted(S \ {m})

\* The orders in which a Python loop may iterate over the set S.
RECURSIVE Orderings(_)
Orderings(S) ==
    IF S = {} THEN {<<>>}
    ELSE UNION { { <<x>> \o rest : rest \in Orderings(S \ {x}) } : x \in S }


(***************************************************************************)
(* A Python dict is a function from its keys to its values.  Nothing in    *)
(* the program depends on the order of a dict other than the order of the  *)
(* lists built by iterating over one, and a loop over a dict or a set is   *)
(* modelled as iterating in any order.                                     *)
(***************************************************************************)
\* dict.setdefault(key, set()).add(x)
SetDefaultAdd(dict, key, x) ==
    [k \in DOMAIN dict \cup {key} |->
        IF k = key THEN (IF key \in DOMAIN dict THEN dict[key] ELSE {}) \cup {x}
        ELSE dict[k]]

\* match_hashes(files): the loop, over the files in the order given.
RECURSIVE match_hashes_from(_, _)
match_hashes_from(hashes, files) ==
    IF files = <<>> THEN hashes
    ELSE match_hashes_from(SetDefaultAdd(hashes, Head(files).hash, Head(files)),
                           Tail(files))

\* match_hashes(files)
match_hashes(files) == match_hashes_from(EmptyMap, files)

\* A variant of dedup_hashes that keeps the last of the sorted duplicates.
dedup_hashes_last(hashes) ==
    { sorted(hashes[h])[Cardinality(hashes[h])] : h \in DOMAIN hashes }

\* dedup_hashes(hashes)
dedup_hashes(hashes) == { sorted(hashes[h])[1] : h \in DOMAIN hashes }

\* The width of a perceptual hash in the model.
PhashBits == 3

Bit(x, i) == (x \div (2 ^ i)) % 2

\* (phash1 ^ phash2).bit_count()
xor_bit_count(phash1, phash2) ==
    Cardinality({i \in 0 .. PhashBits - 1 : Bit(phash1, i) # Bit(phash2, i)})

\* itertools.combinations(seq, 2), in the order Python yields them.
RECURSIVE combinations2(_)
combinations2(seq) ==
    IF Len(seq) < 2 THEN <<>>
    ELSE [i \in 1 .. Len(seq) - 1 |-> <<seq[1], seq[i + 1]>>]
             \o combinations2(Tail(seq))

\* match_phashes, first loop: raw_phashes, and its keys in insertion order
\* (itertools.combinations reads them in that order).
RECURSIVE raw_phashes_from(_, _)
raw_phashes_from(raw, files) ==
    IF files = <<>> THEN raw
    ELSE raw_phashes_from(SetDefaultAdd(raw, Head(files).phash, Head(files)),
                          Tail(files))

RECURSIVE raw_phashes_keys(_, _)
raw_phashes_keys(keys, files) ==
    IF files = <<>> THEN keys
    ELSE raw_phashes_keys(
             IF Head(files).phash \in Range(keys) THEN keys
             ELSE Append(keys, Head(files).phash),
             Tail(files))

RECURSIVE add_singulars(_, _)
add_singulars(c, keys) ==
    IF keys = <<>> THEN c
    ELSE add_singulars(add_singular(c, Head(keys)), Tail(keys))

\* A variant of phash_close that tests for exactly `bits` differing bits.
phash_close_exact(phash1, phash2, bits) == xor_bit_count(phash1, phash2) = bits

\* match_phashes, the test that unions two perceptual hashes.
phash_close(phash1, phash2, bits) == xor_bit_count(phash1, phash2) <= bits

\* match_phashes, second loop: add_pair on every close pair of hashes.
RECURSIVE add_close_pairs(_, _, _)
add_close_pairs(c, pairs, bits) ==
    IF pairs = <<>> THEN c
    ELSE add_close_pairs(
             IF phash_close(Head(pairs)[1], Head(pairs)[2], bits)
             THEN add_pair(c, Head(pairs)[1], Head(pairs)[2])
             ELSE c,
             Tail(pairs), bits)

\* match_phashes(files) with PHASH_DIFF_BITS = bits; files is the order in
\* which the loop iterates over the frozenset of images.
match_phashes(files, bits) ==
    LET raw_phashes == raw_phashes_from(EmptyMap, files)
        singulars == add_singulars(NewClusterer,
                                   [i \in 1 .. Len(files) |-> files[i].phash])
        similar_phashes ==
            add_close_pairs(singulars,
                            combinations2(raw_phashes_keys(<<>>, files)), bits)
    IN  { UNION { raw_phashes[phash] : phash \in phash_group }
            : phash_group \in compile(similar_phashes) }

\* group_similars(phashes)
group_similars(phashes) == { similars \in phashes : 1 < Cardinality(similars) }

\* A variant of make_pairs that takes the combinations of all the members of
\* all the groups together.
make_pairs_across(similar_groups) ==
    LET flat[i \in 0 .. Len(similar_groups)] ==
            IF i = 0 THEN <<>> ELSE flat[i - 1] \o similar_groups[i]
    IN  combinations2(flat[Len(similar_groups)])

\* make_pairs, for one iteration order: a sequence of groups, each of them
\* the sequence in which itertools.combinations reads the group.
RECURSIVE make_pairs(_)
make_pairs(similar_groups) ==
    IF similar_groups = <<>> THEN <<>>
    ELSE combinations2(Head(similar_groups)) \o make_pairs(Tail(similar_groups))

\* The orders in which make_pairs may read a set of groups: the groups in
\* any order, each group in any order.
RECURSIVE IterationOrders(_)
IterationOrders(groups) ==
    IF groups = {} THEN {<<>>}
    ELSE UNION { { <<order>> \o rest :
                     order \in Orderings(g), rest \in IterationOrders(groups \ {g}) }
                 : g \in groups }

(***************************************************************************)
(* The similarity cache.  CACHE maps a key to a score; scores are in       *)
(* hundredths (90 is 0.9).                                                 *)
(***************************************************************************)
\* The scores ncc_score may return: -1 (the modes differ), 0.0 and 0.9.
Scores == {-100, 0, 90}

\* Python's None and a present value.
None == {}
Some(v) == {v}

\* if x: for an optional float
Truthy(x) == x # None /\ x # Some(0)

\* ncc_cache_key(file1, file2)
ncc_cache_key(file1, file2) ==
    IF LexLess(file2.hash, file1.hash)
    THEN file2.hash \o file1.hash
    ELSE file1.hash \o file2.hash

\* get_from_cache(key): CACHE.get(key)
get_from_cache(cache, key) ==
    IF key \in DOMAIN cache THEN Some(cache[key]) ELSE None

\* set_in_cache(key, value)
set_in_cache(cache, key, value) ==
    [x \in DOMAIN cache \cup {key} |-> IF x = key THEN value ELSE cache[x]]

\* ncc_compare: the test `if score := get_from_cache(...)` that decides
\* whether the cached score is returned.
cache_hit(cache, file1, file2) ==
    Truthy(get_from_cache(cache, ncc_cache_key(file1, file2)))

(***************************************************************************)
(* The report: what duplicate_finder compiles from hashes and results.     *)
(***************************************************************************)
\* tuple(map(str, sorted(fileset)))
str_tuple(fileset) ==
    LET files == sorted(fileset) IN [i \in 1 .. Len(files) |-> str(files[i])]

\* A variant of identical_tuples that also reports the buckets of one file.
identical_tuples_all(hashes) == { str_tuple(hashes[h]) : h \in DOMAIN hashes }

\* The tuples appended to identicals, as a set (the list is built in the
\* iteration order of hashes.values()).
identical_tuples(hashes) ==
    { str_tuple(hashes[h]) : h \in {k \in DOMAIN hashes : 1 < Cardinality(hashes[k])} }

\* The test that feeds a compared pair to the Clusterer: 0.9 <= ncc_score
confirmed(score) == 90 <= score

\* The loop over results: set_in_cache on every result.
RECURSIVE cache_after(_, _)
cache_after(cache, results) ==
    IF results = <<>> THEN cache
    ELSE cache_after(set_in_cache(cache,
                                  ncc_cache_key(Head(results)[1], Head(results)[2]),
                                  Head(results)[3]),
                     Tail(results))

\* A variant of similars_after that leaves the loop at the first result
\* below 0.9.
RECURSIVE similars_after_until_miss(_, _)
similars_after_until_miss(similars, results) ==
    IF results = <<>> THEN similars
    ELSE IF confirmed(Head(results)[3])
         THEN similars_after_until_miss(
                  add_pair(similars, Head(results)[1], Head(results)[2]),
                  Tail(results))
         ELSE similars

\* The loop over results: similars.add_pair on every confirmed pair.
RECURSIVE similars_after(_, _)
similars_after(similars, results) ==
    IF results = <<>> THEN similars
    ELSE similars_after(
             IF confirmed(Head(results)[3])
             THEN add_pair(similars, Head(results)[1], Head(results)[2])
             ELSE similars,
             Tail(results))

\* The tuples appended to similaritysets, as a set (the list is built in the
\* iteration order of similars.compile()).
similarity_tuples(results) ==
    { str_tuple(similarityset) :
        similarityset \in { g \in compile(similars_after(NewClusterer, results)) :
                              1 < Cardinality(g) } }

(***************************************************************************)
(* Files on disk: CACHE_FILE and REPORT_FILE.  open(path, 'w') truncates   *)
(* the file at once; json.dump then writes into it.                        *)
(***************************************************************************)
Absent == [kind |-> "absent"]
Truncated == [kind |-> "empty"]
Partial == [kind |-> "partial"]
Json(value) == [kind |-> "json", value |-> value]

\* json.load succeeds on the file.
Loadable(file) == file.kind = "json"

(***************************************************************************)
(* Triage (interactive): the files as the operating system sees them.      *)
(* Image.open, os.path.getsize and shutil.move take a path; the strings of *)
(* the report are what str(File) gave, that is shlex.quote of the path.    *)
(***************************************************************************)
\* Image.open(f).size for a file of content c, as <<width, height>>, and
\* os.path.getsize.  Contents 1, 2 and 4 have the same dimensions, 1 and 4
\* the same byte size as well; 3 is smaller than any in both axes; 5 and 6
\* are wider and lower than 1.
ImageSize(c) ==
    << <<800, 600>>, <<800, 600>>, <<400, 300>>, <<800, 600>>,
       <<1000, 500>>, <<1000, 500>> >>[c]

ByteSize(c) == <<200, 350, 100, 200, 300, 300>>[c]

\* The first word shlex.split gives (POSIX rules): blanks end a word outside
\* quotes, '...' is literal, "..." is literal but for \" and \\, and a
\* backslash outside quotes takes the next code point as it is.  mode is
\* "plain", "single" or "double".  The strings of a report come from
\* shlex.quote and always close their quotes.
RECURSIVE split_word(_, _, _)
split_word(s, mode, word) ==
    IF s = <<>> THEN word
    ELSE LET ch == Head(s)
             rest == Tail(s)
         IN  CASE mode = "plain" /\ ch \in {32, 9, 10, 13} -> word
               [] mode = "plain" /\ ch = 39 -> split_word(rest, "single", word)
               [] mode = "plain" /\ ch = 34 -> split_word(rest, "double", word)
               [] mode = "plain" /\ ch = 92 /\ rest # <<>> ->
                     split_word(Tail(rest), "plain", Append(word, Head(rest)))
               [] mode = "single" /\ ch = 39 -> split_word(rest, "plain", word)
               [] mode = "double" /\ ch = 34 -> split_word(rest, "plain", word)
               [] mode = "double" /\ ch = 92 /\ rest # <<>> /\ Head(rest) \in {34, 92} ->
                     split_word(Tail(rest), "double", Append(word, Head(rest)))
               [] OTHER -> split_word(rest, mode, Append(word, ch))

RECURSIVE skip_blanks(_)
skip_blanks(s) ==
    IF s # <<>> /\ Head(s) \in {32, 9, 10, 13} THEN skip_blanks(Tail(s)) ELSE s

\* shlex.split(file)[0]
split_first(file) == split_word(skip_blanks(file), "plain", <<>>)

\* The listed paths of fsys that name the file `path` names (the working
\* directory is the scanned tree).
Resolve(fsys, path) == { k \in DOMAIN fsys : normpath(k) = normpath(path) }

\* The path names a file: open(path) does not raise FileNotFoundError.
Exists(fsys, path) == Resolve(fsys, path) # {}

ContentAt(fsys, path) == fsys[CHOOSE k \in Resolve(fsys, path) : TRUE]

\* removefile(file): shutil.move(shlex.split(file)[0], TRASH_DIR).  The
\* outcome is "exists" when TRASH_DIR already holds a file of that name
\* (shutil.Error, printed by removefile), "missing" when the source is not
\* there (FileNotFoundError, which removefile lets through), else "moved".
removefile_outcome(fsys, trashed, file) ==
    LET src == split_first(file)
    IN  IF basename(src) \in trashed THEN "exists"
        ELSE IF ~Exists(fsys, src) THEN "missing"
        ELSE "moved"

\* The tree and TRASH_DIR after removefile(file).
fs_after_remove(fsys, trashed, file) ==
    IF removefile_outcome(fsys, trashed, file) = "moved"
    THEN [k \in DOMAIN fsys \ Resolve(fsys, split_first(file)) |-> fsys[k]]
    ELSE fsys

trash_after_remove(fsys, trashed, file) ==
    IF removefile_outcome(fsys, trashed, file) = "moved"
    THEN trashed \cup {basename(split_first(file))}
    ELSE trashed

(***************************************************************************)
(* State.                                                                  *)
(***************************************************************************)
VARIABLES
    clusterer,   \* a stand-alone Clusterer instance: [d, heap]
    registered,  \* history: every key ever passed to add_singular/add_pair
    last_call,   \* history: the last call made on clusterer, with the state before it
    fs,          \* the scanned tree: listed path -> content
    disk_cache,  \* CACHE_FILE
    disk_report, \* REPORT_FILE
    PHASH_DIFF_BITS,
    PROCESS_COUNT,
    CACHE,       \* the global dict, as a function key -> score
    pc,          \* where the running command is
    files,       \* the File objects collected from the first pool
    hashes,      \* match_hashes(files)
    uniques,     \* the keepers: dedup_hashes(hashes)
    phashes,     \* match_phashes(images)
    pairs,       \* make_pairs(similar_groups)
    pending,     \* indices of pairs whose result has not been delivered
    results,     \* list of (file1, file2, score)
    identicals,  \* the report's identical groups
    similaritysets, \* the report's similar groups
    previous,    \* history: CACHE_FILE and REPORT_FILE as the command found them
    ncc_calls,   \* history: the keys of the pairs ncc_score was called on
    failure,     \* history: what raised, if anything did
    trash,       \* TRASH_DIR: the names of the files in it
    similars,    \* interactive: the similar groups of the loaded report
    todelete,    \* interactive: the files with identical matches
    samesize,    \* interactive: set of (lighter, heavier)
    diffsize,    \* interactive: set of (smaller, larger)
    others,      \* interactive: the groups that still need attention
    asked,       \* interactive: the pairs the two loops have been through,
                 \* each with whether the answer was a yes
    run,         \* history: how many times interactive was started
    resolved,    \* history: the groups whose files interactive removed
    declined,    \* history: every prompt so far was answered "n"
    first        \* history: what the first run of interactive left

clVars == <<clusterer, registered, last_call>>

diskVars == <<disk_cache, disk_report>>

globalVars == <<PHASH_DIFF_BITS, PROCESS_COUNT, CACHE>>

localVars == <<files, hashes, uniques, phashes, pairs, pending, results,
               identicals, similaritysets>>

scanVars == <<fs, diskVars, globalVars, pc, localVars, previous, ncc_calls, failure>>

triageVars == <<trash, similars, todelete, samesize, diffsize, others, asked,
                run, resolved, declined, first>>

vars == <<clVars, scanVars, triageVars>>

NoCall == [op |-> "none"]
NoFailure == [stage |-> "none"]

\* The module-level values, before duplicate_finder runs.
ModuleLoaded ==
    /\ PHASH_DIFF_BITS = 2
    /\ PROCESS_COUNT = 4
    /\ CACHE = EmptyMap
    /\ pc = "start"
    /\ files = {}
    /\ hashes = EmptyMap
    /\ uniques = {}
    /\ phashes = {}
    /\ pairs = <<>>
    /\ pending = {}
    /\ results = <<>>
    /\ identicals = <<>>
    /\ similaritysets = <<>>
    /\ ncc_calls = {}
    /\ failure = NoFailure

NoRun == [pc |-> "none"]

\* interactive has not run.
TriageUnused ==
    /\ trash = {}
    /\ similars = <<>>
    /\ todelete = <<>>
    /\ samesize = {}
    /\ diffsize = {}
    /\ others = <<>>
    /\ asked = {}
    /\ run = 0
    /\ resolved = {}
    /\ declined = TRUE
    /\ first = NoRun

ClustererUnused ==
    /\ clusterer = NewClusterer
    /\ registered = {}
    /\ last_call = NoCall

(***************************************************************************)
(* The stand-alone Clusterer.                                              *)
(***************************************************************************)
InitClusterer ==
    /\ TriageUnused
    /\ clusterer = NewClusterer
    /\ registered = {}
    /\ last_call = NoCall
    /\ fs = EmptyMap
    /\ disk_cache = Absent
    /\ disk_report = Absent
    /\ previous = <<Absent, Absent>>
    /\ ModuleLoaded

CallAddPair(a, b) ==
    /\ UNCHANGED triageVars
    /\ clusterer' = add_pair(clusterer, a, b)
    /\ registered' = registered \cup {a, b}
    /\ last_call' = [op |-> "add_pair", a |-> a, b |-> b, before |-> clusterer]
    /\ UNCHANGED scanVars

CallAddSingular(a) ==
    /\ UNCHANGED triageVars
    /\ clusterer' = add_singular(clusterer, a)
    /\ registered' = registered \cup {a}
    /\ last_call' = [op |-> "add_singular", a |-> a, before |-> clusterer]
    /\ UNCHANGED scanVars

NextClusterer ==
    \/ \E a \in Keys, b \in Keys : CallAddPair(a, b)
    \/ \E a \in Keys : CallAddSingular(a)

SpecClusterer == InitClusterer /\ [][NextClusterer]_vars

(***************************************************************************)
(* duplicate_finder(args): one scan.                                       *)
(***************************************************************************)
\* The trees a scan may find: 1 to MaxFiles listed paths, each with a content.
FileSystems ==
    UNION { [P -> Contents] :
              P \in { Q \in SUBSET PathUniverse : Cardinality(Q) \in 1 .. MaxFiles } }

\* The command lines: no argument, [diff], [diff, processes].
ArgsUniverse == { <<>>, <<1, 1>> }

\* A cache file left by earlier scans: contents 1 and 2 scored 0.9, contents
\* 1 and 3 scored 0.0, contents 2 and 3 scored -1.
StoredCache ==
    LET key(c1, c2) == ncc_cache_key([hash |-> Md5Hex(c1)], [hash |-> Md5Hex(c2)])
    IN  [k \in {key(1, 2), key(1, 3), key(2, 3)} |->
            IF k = key(1, 2) THEN 90 ELSE IF k = key(1, 3) THEN 0 ELSE -100]

\* The report file left by an earlier scan: ["a.jpg", "b.jpg"] were similar.
StoredReport ==
    [identicals |-> <<>>,
     similars |-> << << <<97, 46, 106, 112, 103>>, <<98, 46, 106, 112, 103>> >> >>]

\* Either no scan ran before, or one left its cache and its report.
InitScan ==
    /\ TriageUnused
    /\ ClustererUnused
    /\ fs \in FileSystems
    /\ \E found \in { <<Absent, Absent>>, <<Json(StoredCache), Json(StoredReport)>> } :
          disk_cache = found[1] /\ disk_report = found[2]
    /\ previous = <<disk_cache, disk_report>>
    /\ ModuleLoaded

\* Argument parsing, list_files(".") and load_cache().
Begin(args) ==
    /\ UNCHANGED triageVars
    /\ pc = "start"
    /\ PHASH_DIFF_BITS' = IF 1 <= Len(args) THEN args[1] ELSE PHASH_DIFF_BITS
    /\ PROCESS_COUNT' = IF 2 <= Len(args) THEN args[2] ELSE PROCESS_COUNT
    /\ CACHE' = IF Loadable(disk_cache) THEN disk_cache.value ELSE EmptyMap
    /\ pc' = "hashing"
    /\ UNCHANGED <<clVars, fs, diskVars, localVars, previous, ncc_calls, failure>>

\* The paths list_files returned whose File the pool has not delivered yet.
Undelivered == { p \in DOMAIN fs : \A f \in files : f.path # normpath(p) }

\* pool.imap_unordered(File, filepaths) delivers one File, in any order.
FileResult(p) ==
    /\ UNCHANGED triageVars
    /\ pc = "hashing"
    /\ p \in Undelivered
    /\ files' = files \cup {File(fs, p)}
    /\ UNCHANGED <<clVars, fs, diskVars, globalVars, pc, hashes, uniques, phashes,
                   pairs, pending, results, identicals, similaritysets,
                   previous, ncc_calls, failure>>

\* File(p) raises in the worker (open or isearch.phash fails): the exception
\* is re-raised by the iterator inside list(...), which nothing catches.
FileRaises(p) ==
    /\ UNCHANGED triageVars
    /\ pc = "hashing"
    /\ p \in Undelivered
    /\ pc' = "raised"
    /\ failure' = [stage |-> "File", path |-> p]
    /\ UNCHANGED <<clVars, fs, diskVars, globalVars, localVars, previous, ncc_calls>>

\* match_hashes, dedup_hashes, match_phashes, group_similars, make_pairs.
Match ==
    /\ UNCHANGED triageVars
    /\ pc = "hashing"
    /\ Undelivered = {}
    /\ \E order \in Orderings(files) : hashes' = match_hashes(order)
    /\ uniques' = dedup_hashes(hashes')
    /\ \E order \in Orderings({f \in uniques' : f.isimage}) :
          phashes' = match_phashes(order, PHASH_DIFF_BITS)
    /\ \E order \in IterationOrders(group_similars(phashes')) :
          pairs' = make_pairs(order)
    /\ pending' = 1 .. Len(pairs')
    /\ pc' = "comparing"
    /\ UNCHANGED <<clVars, fs, diskVars, globalVars, files, results, identicals,
                   similaritysets, previous, ncc_calls, failure>>

\* The pair whose result next(it) yields: the next of the list with one
\* process, any unfinished one with a pool.
MayDeliver(i) ==
    /\ i \in pending
    /\ PROCESS_COUNT <= 1 => \A j \in pending : i <= j

\* ncc_compare(pairs[i]) returns the cached score.
CompareCached(i) ==
    /\ UNCHANGED triageVars
    /\ pc = "comparing"
    /\ MayDeliver(i)
    /\ cache_hit(CACHE, pairs[i][1], pairs[i][2])
    /\ results' = Append(results, <<pairs[i][1], pairs[i][2],
                                   CACHE[ncc_cache_key(pairs[i][1], pairs[i][2])]>>)
    /\ pending' = pending \ {i}
    /\ UNCHANGED <<clVars, fs, diskVars, globalVars, pc, files, hashes, uniques,
                   phashes, pairs, identicals, similaritysets, previous, ncc_calls, failure>>

\* A variant of CompareScored in which ncc_compare stores the score it
\* computed in the cache.
CompareScoredWrites(i, score) ==
    /\ UNCHANGED triageVars
    /\ pc = "comparing"
    /\ MayDeliver(i)
    /\ ~cache_hit(CACHE, pairs[i][1], pairs[i][2])
    /\ results' = Append(results, <<pairs[i][1], pairs[i][2], score>>)
    /\ pending' = pending \ {i}
    /\ ncc_calls' = ncc_calls \cup {ncc_cache_key(pairs[i][1], pairs[i][2])}
    /\ CACHE' = set_in_cache(CACHE, ncc_cache_key(pairs[i][1], pairs[i][2]), score)
    /\ UNCHANGED <<clVars, fs, diskVars, PHASH_DIFF_BITS, PROCESS_COUNT, pc, files,
                   hashes, uniques, phashes, pairs, identicals, similaritysets,
                   previous, failure>>

\* ncc_compare(pairs[i]) calls ncc_score, which returns score.
CompareScored(i, score) ==
    /\ UNCHANGED triageVars
    /\ pc = "comparing"
    /\ MayDeliver(i)
    /\ ~cache_hit(CACHE, pairs[i][1], pairs[i][2])
    /\ results' = Append(results, <<pairs[i][1], pairs[i][2], score>>)
    /\ pending' = pending \ {i}
    /\ ncc_calls' = ncc_calls \cup {ncc_cache_key(pairs[i][1], pairs[i][2])}
    /\ UNCHANGED <<clVars, fs, diskVars, globalVars, pc, files, hashes, uniques,
                   phashes, pairs, identicals, similaritysets, previous, failure>>

\* The rest of duplicate_finder, which runs in the calling process with no
\* pool open: "Compiling results..." (identicals, the cache updates,
\* similaritysets), store_cache and store_report, both running to their end
\* (SpecStore takes the two stores step by step).
CompileAndStore ==
    /\ identicals' \in Orderings(identical_tuples(hashes))
    /\ CACHE' = cache_after(CACHE, results)
    /\ similaritysets' \in Orderings(similarity_tuples(results))
    /\ disk_cache' = Json(CACHE')
    /\ disk_report' = Json([identicals |-> identicals', similars |-> similaritysets'])
    /\ pc' = "done"

\* ncc_compare(pairs[i]) calls ncc_score, which raises (no thumbnail, or
\* compare printed no number): next(it) raises, `except: break` ends the
\* collection, and the results collected so far are compiled and stored.
CompareRaises(i) ==
    /\ UNCHANGED triageVars
    /\ pc = "comparing"
    /\ MayDeliver(i)
    /\ ~cache_hit(CACHE, pairs[i][1], pairs[i][2])
    /\ ncc_calls' = ncc_calls \cup {ncc_cache_key(pairs[i][1], pairs[i][2])}
    /\ failure' = [stage |-> "ncc_compare", pair |-> i]
    /\ CompileAndStore
    /\ UNCHANGED <<clVars, fs, PHASH_DIFF_BITS, PROCESS_COUNT, files, hashes,
                   uniques, phashes, pairs, pending, results, previous>>

\* Every result was delivered: next(it) raises StopIteration, `except: break`,
\* and the results are compiled and stored.
EndOfResults ==
    /\ UNCHANGED triageVars
    /\ pc = "comparing"
    /\ pending = {}
    /\ CompileAndStore
    /\ UNCHANGED <<clVars, fs, PHASH_DIFF_BITS, PROCESS_COUNT, files, hashes,
                   uniques, phashes, pairs, pending, results,
                   previous, ncc_calls, failure>>

NextScan ==
    \/ \E args \in ArgsUniverse : Begin(args)
    \/ \E p \in PathUniverse : FileResult(p)
    \/ \E p \in PathUniverse : FileRaises(p)
    \/ Match
    \/ \E i \in 1 .. Len(pairs) : CompareCached(i)
    \/ \E i \in 1 .. Len(pairs), score \in Scores : CompareScored(i, score)
    \/ \E i \in 1 .. Len(pairs) : CompareRaises(i)
    \/ EndOfResults

SpecScan == InitScan /\ [][NextScan]_vars

(***************************************************************************)
(* duplicate_finder(args) on a larger tree: five pictures of two scenes,   *)
(* one of them a copy of another.                                          *)
(***************************************************************************)
\* "./a.jpg", "./b.jpg", "./a b.png", "./d.jpg", "./c.jpg"
WidePaths ==
    { <<46, 47, 97, 46, 106, 112, 103>>,
      <<46, 47, 98, 46, 106, 112, 103>>,
      <<46, 47, 97, 32, 98, 46, 112, 110, 103>>,
      <<46, 47, 100, 46, 106, 112, 103>>,
      <<46, 47, 99, 46, 106, 112, 103>> }

\* Two pictures of one scene (perceptual hash 001) and two of another (110).
WideContents == {2, 4, 5, 6}

\* "./a.jpg" and "./a b.png" show one scene, "./b.jpg" and "./d.jpg" the
\* other, and "./c.jpg" is a copy of any one of the four.
WideTrees ==
    { [p \in WidePaths |->
          IF p = <<46, 47, 97, 46, 106, 112, 103>> THEN 2
          ELSE IF p = <<46, 47, 97, 32, 98, 46, 112, 110, 103>> THEN 4
          ELSE IF p = <<46, 47, 98, 46, 106, 112, 103>> THEN 5
          ELSE IF p = <<46, 47, 100, 46, 106, 112, 103>> THEN 6
          ELSE copy] : copy \in WideContents }

\* A cache file left by an earlier scan: contents 2 and 4 scored 0.9.
WideStoredCache ==
    LET key == ncc_cache_key([hash |-> Md5Hex(2)], [hash |-> Md5Hex(4)])
    IN  [k \in {key} |-> 90]

InitScanWide ==
    /\ TriageUnused
    /\ ClustererUnused
    /\ fs \in WideTrees
    /\ \E found \in { <<Absent, Absent>>,
                       <<Json(WideStoredCache), Json(StoredReport)>> } :
          disk_cache = found[1] /\ disk_report = found[2]
    /\ previous = <<disk_cache, disk_report>>
    /\ ModuleLoaded

NextScanWide ==
    \/ \E args \in ArgsUniverse : Begin(args)
    \/ \E p \in WidePaths : FileResult(p)
    \/ \E p \in WidePaths : FileRaises(p)
    \/ Match
    \/ \E i \in 1 .. Len(pairs) : CompareCached(i)
    \/ \E i \in 1 .. Len(pairs), score \in Scores : CompareScored(i, score)
    \/ \E i \in 1 .. Len(pairs) : CompareRaises(i)
    \/ EndOfResults

SpecScanWide == InitScanWide /\ [][NextScanWide]_vars

(***************************************************************************)
(* store_cache and store_report, step by step: the file is opened for      *)
(* writing, json.dump writes into it, the file is closed; the process may  *)
(* die, or a write may raise, while a file is open.                        *)
(***************************************************************************)
\* What a scan may hold when it reaches store_cache: a cache of scores for
\* some of the stored keys, and a report.
InitStore ==
    /\ TriageUnused
    /\ ClustererUnused
    /\ fs = EmptyMap
    /\ \E found \in { <<Absent, Absent>>, <<Json(StoredCache), Json(StoredReport)>> } :
          disk_cache = found[1] /\ disk_report = found[2]
    /\ previous = <<disk_cache, disk_report>>
    /\ PHASH_DIFF_BITS = 2
    /\ PROCESS_COUNT = 4
    /\ CACHE \in UNION { [K -> Scores] : K \in SUBSET DOMAIN StoredCache }
    /\ pc = "store_cache"
    /\ files = {}
    /\ hashes = EmptyMap
    /\ uniques = {}
    /\ phashes = {}
    /\ pairs = <<>>
    /\ pending = {}
    /\ results = <<>>
    /\ \E report \in { [identicals |-> <<>>, similars |-> <<>>], StoredReport } :
          identicals = report.identicals /\ similaritysets = report.similars
    /\ ncc_calls = {}
    /\ failure = NoFailure

\* store_cache: open(CACHE_FILE, 'w')
StoreCacheOpen ==
    /\ UNCHANGED triageVars
    /\ pc = "store_cache"
    /\ disk_cache' = Truncated
    /\ pc' = "cache_dump"
    /\ UNCHANGED <<clVars, fs, disk_report, globalVars, localVars, previous, ncc_calls, failure>>

\* store_cache: json.dump has written a part of the text to the file.
StoreCacheFlush ==
    /\ UNCHANGED triageVars
    /\ pc = "cache_dump"
    /\ disk_cache = Truncated
    /\ disk_cache' = Partial
    /\ UNCHANGED <<clVars, fs, disk_report, globalVars, pc, localVars, previous, ncc_calls, failure>>

\* store_cache: json.dump(CACHE, f) is complete and the file is closed.
StoreCacheClose ==
    /\ UNCHANGED triageVars
    /\ pc = "cache_dump"
    /\ disk_cache' = Json(CACHE)
    /\ pc' = "store_report"
    /\ UNCHANGED <<clVars, fs, disk_report, globalVars, localVars, previous, ncc_calls, failure>>

\* store_report: open(REPORT_FILE, 'w')
StoreReportOpen ==
    /\ UNCHANGED triageVars
    /\ pc = "store_report"
    /\ disk_report' = Truncated
    /\ pc' = "report_dump"
    /\ UNCHANGED <<clVars, fs, disk_cache, globalVars, localVars, previous, ncc_calls, failure>>

\* store_report: json.dump has written a part of the text to the file.
StoreReportFlush ==
    /\ UNCHANGED triageVars
    /\ pc = "report_dump"
    /\ disk_report = Truncated
    /\ disk_report' = Partial
    /\ UNCHANGED <<clVars, fs, disk_cache, globalVars, pc, localVars, previous, ncc_calls, failure>>

\* store_report: json.dump({"identicals": ..., "similars": ...}, f), close.
StoreReportClose ==
    /\ UNCHANGED triageVars
    /\ pc = "report_dump"
    /\ disk_report' = Json([identicals |-> identicals, similars |-> similaritysets])
    /\ pc' = "done"
    /\ UNCHANGED <<clVars, fs, disk_cache, globalVars, localVars, previous, ncc_calls, failure>>

\* The process dies, or write() raises, while a file is open for writing:
\* the file is left with what reached it.
WriteFails ==
    /\ UNCHANGED triageVars
    /\ pc \in {"cache_dump", "report_dump"}
    /\ failure' = [stage |-> IF pc = "cache_dump" THEN "store_cache" ELSE "store_report"]
    /\ pc' = "raised"
    /\ UNCHANGED <<clVars, fs, diskVars, globalVars, localVars, previous, ncc_calls>>

NextStore ==
    \/ StoreCacheOpen
    \/ StoreCacheFlush
    \/ StoreCacheClose
    \/ StoreReportOpen
    \/ StoreReportFlush
    \/ StoreReportClose
    \/ WriteFails

SpecStore == InitStore /\ [][NextStore]_vars

(***************************************************************************)
(* interactive(): triage of the report.  The steps are the stretches of    *)
(* code between two input() prompts; a prompt may be answered or           *)
(* interrupted (KeyboardInterrupt, EOFError), which nothing catches.       *)
(***************************************************************************)
\* interactive may be started MaxRuns times in a row.
MaxRuns == 2

\* What the user may type at a prompt; "" and "y" mean yes at a [Y/n] prompt.
Answers == { <<>>, <<121>>, <<110>> }
yes(answer) == answer = <<>> \/ answer = <<121>>

\* A variant of todelete_of that takes every member of a group.
RECURSIVE todelete_of_all(_)
todelete_of_all(groups) ==
    IF groups = <<>> THEN <<>>
    ELSE Head(groups) \o todelete_of_all(Tail(groups))

\* The loop that builds todelete: todelete.extend(identicalset[1:])
RECURSIVE todelete_of(_)
todelete_of(groups) ==
    IF groups = <<>> THEN <<>>
    ELSE Tail(Head(groups)) \o todelete_of(Tail(groups))

\* The loop `for file in todelete: removefile(file)`, FileNotFoundError
\* caught: the tree and TRASH_DIR after it.
RECURSIVE remove_all(_, _, _)
remove_all(fsys, trashed, filelist) ==
    IF filelist = <<>> THEN [fs |-> fsys, trash |-> trashed]
    ELSE remove_all(fs_after_remove(fsys, trashed, Head(filelist)),
                    trash_after_remove(fsys, trashed, Head(filelist)),
                    Tail(filelist))

\* A variant of samesize_pair that puts the heavier file first.
samesize_pair_heavier_first(f1, f2, s1, s2) ==
    IF s1 > s2 THEN <<f1, f2>> ELSE <<f2, f1>>

\* The pair added to samesize: (kept, removed on a yes).
samesize_pair(f1, f2, s1, s2) == IF s1 < s2 THEN <<f1, f2>> ELSE <<f2, f1>>

\* A variant of strictly_smaller that is content with one axis.
smaller_in_an_axis(size1, size2) == size1[2] < size2[2] \/ size1[1] < size2[1]

\* i1.height < i2.height and i1.width < i2.width
strictly_smaller(size1, size2) == size1[2] < size2[2] /\ size1[1] < size2[1]

\* The body of the loop over similars, for one group.  Image.open and
\* os.path.getsize are given the strings of the report.
classify(fsys, similarityset) ==
    IF Len(similarityset) # 2 THEN [kind |-> "others", group |-> similarityset]
    ELSE LET f1 == similarityset[1]
             f2 == similarityset[2]
         IN  IF ~Exists(fsys, f1) \/ ~Exists(fsys, f2) THEN [kind |-> "raises"]
             ELSE LET i1 == ImageSize(ContentAt(fsys, f1))
                      i2 == ImageSize(ContentAt(fsys, f2))
                  IN  IF i1 = i2
                      THEN [kind |-> "samesize",
                            group |-> samesize_pair(f1, f2,
                                                    ByteSize(ContentAt(fsys, f1)),
                                                    ByteSize(ContentAt(fsys, f2)))]
                      ELSE IF strictly_smaller(i1, i2)
                      THEN [kind |-> "diffsize", group |-> <<f1, f2>>]
                      ELSE IF strictly_smaller(i2, i1)
                      THEN [kind |-> "diffsize", group |-> <<f2, f1>>]
                      ELSE [kind |-> "others", group |-> similarityset]

\* The loop over similars: samesize, diffsize and others after it, or
\* raised when Image.open raised on the way.
RECURSIVE classify_all(_, _, _)
classify_all(fsys, groups, acc) ==
    IF groups = <<>> THEN acc
    ELSE LET c == classify(fsys, Head(groups))
         IN  CASE c.kind = "raises" ->
                     [samesize |-> acc.samesize, diffsize |-> acc.diffsize,
                      others |-> acc.others, raised |-> TRUE]
               [] c.kind = "samesize" ->
                     classify_all(fsys, Tail(groups),
                         [samesize |-> acc.samesize \cup {c.group},
                          diffsize |-> acc.diffsize,
                          others |-> acc.others, raised |-> FALSE])
               [] c.kind = "diffsize" ->
                     classify_all(fsys, Tail(groups),
                         [samesize |-> acc.samesize,
                          diffsize |-> acc.diffsize \cup {c.group},
                          others |-> acc.others, raised |-> FALSE])
               [] OTHER ->
                     classify_all(fsys, Tail(groups),
                         [samesize |-> acc.samesize, diffsize |-> acc.diffsize,
                          others |-> Append(acc.others, c.group), raised |-> FALSE])

\* A variant of keep_for_later that forgets the pair.
forget_pair(list, pair) == list

\* "Ok, keeping it for later": others.append((f1, f2))
keep_for_later(list, pair) == Append(list, pair)

\* "./a.jpg", "./b.jpg", "./a b.png", "./d.jpg"
TriagePaths ==
    { <<46, 47, 97, 46, 106, 112, 103>>,
      <<46, 47, 98, 46, 106, 112, 103>>,
      <<46, 47, 97, 32, 98, 46, 112, 110, 103>>,
      <<46, 47, 100, 46, 106, 112, 103>> }

TriageContents == 1 .. 5

\* The trees a report may be about: two or more images.
TriageTrees ==
    UNION { [P -> TriageContents] :
              P \in { Q \in SUBSET TriagePaths : Cardinality(Q) >= 2 } }

\* The sets of disjoint groups of two or more of the given files.
GroupSets(fileset) ==
    { G \in SUBSET { g \in SUBSET fileset : Cardinality(g) >= 2 } :
        \A g1 \in G, g2 \in G : g1 # g2 => g1 \cap g2 = {} }

\* The reports a scan of fsys may have written: the identical groups are
\* the files of one content, the similar groups are disjoint groups of
\* keepers; the lists are in any order.
ReportsOf(fsys) ==
    LET listed == { [path |-> normpath(p), content |-> fsys[p]] : p \in DOMAIN fsys }
        buckets == { {f \in listed : f.content = g.content} : g \in listed }
        keepers == { sorted(b)[1] : b \in buckets }
    IN  UNION { { [identicals |-> i, similars |-> sim] :
                    i \in Orderings({ str_tuple(b) : b \in {x \in buckets : Cardinality(x) >= 2} }),
                    sim \in Orderings({ str_tuple(g) : g \in G }) }
                : G \in GroupSets(keepers) }

\* TRASH_DIR as an earlier triage left it: "b.jpg"
LeftInTrash == { <<98, 46, 106, 112, 103>> }

InitTriage ==
    /\ ClustererUnused
    /\ fs \in TriageTrees
    /\ disk_cache = Absent
    /\ disk_report \in {Absent} \cup { Json(r) : r \in ReportsOf(fs) }
    /\ previous = <<disk_cache, disk_report>>
    /\ PHASH_DIFF_BITS = 2
    /\ PROCESS_COUNT = 4
    /\ CACHE = EmptyMap
    /\ pc = "interactive"
    /\ files = {}
    /\ hashes = EmptyMap
    /\ uniques = {}
    /\ phashes = {}
    /\ pairs = <<>>
    /\ pending = {}
    /\ results = <<>>
    /\ identicals = <<>>
    /\ similaritysets = <<>>
    /\ ncc_calls = {}
    /\ failure = NoFailure
    /\ trash \in { {}, LeftInTrash }
    /\ similars = <<>>
    /\ todelete = <<>>
    /\ samesize = {}
    /\ diffsize = {}
    /\ others = <<>>
    /\ asked = {}
    /\ run = 1
    /\ resolved = {}
    /\ declined = TRUE
    /\ first = NoRun

\* What interactive never touches.
notInTriage == <<clVars, disk_cache, globalVars, files, hashes, uniques, phashes,
                 pairs, pending, results, similaritysets, previous, ncc_calls>>

\* open(REPORT_FILE), json.load: return 1 when the file is not there.
LoadReport ==
    /\ pc = "interactive"
    /\ IF disk_report = Absent
       THEN /\ pc' = "no_report"
            /\ UNCHANGED <<identicals, similars, failure>>
       ELSE IF ~Loadable(disk_report)
       THEN /\ pc' = "raised"
            /\ failure' = [stage |-> "json.load"]
            /\ UNCHANGED <<identicals, similars>>
       ELSE /\ identicals' = disk_report.value.identicals
            /\ similars' = disk_report.value.similars
            /\ pc' = "trash"
            /\ UNCHANGED failure
    /\ UNCHANGED <<notInTriage, fs, disk_report, trash, todelete, samesize, diffsize,
                   others, asked, run, resolved, declined, first>>

\* TRASH_DIR is missing or empty: os.makedirs(TRASH_DIR, exist_ok=True)
TrashIsEmpty ==
    /\ pc = "trash"
    /\ trash = {}
    /\ pc' = "mark"
    /\ UNCHANGED <<notInTriage, fs, disk_report, identicals, failure, triageVars>>

\* "Trash is not empty.  Empty it? [Y/n]"
TrashAnswer(answer) ==
    /\ pc = "trash"
    /\ trash # {}
    /\ trash' = IF yes(answer) THEN {} ELSE trash
    /\ declined' = (declined /\ ~yes(answer))
    /\ pc' = "mark"
    /\ UNCHANGED <<notInTriage, fs, disk_report, identicals, failure, similars,
                   todelete, samesize, diffsize, others, asked, run, resolved, first>>

\* todelete is built from the identical groups.
MarkIdenticals ==
    /\ pc = "mark"
    /\ todelete' = todelete_of(identicals)
    /\ pc' = IF todelete' # <<>> THEN "identicals_prompt" ELSE "classify"
    /\ UNCHANGED <<notInTriage, fs, disk_report, identicals, failure, trash, similars,
                   samesize, diffsize, others, asked, run, resolved, declined, first>>

\* "N have identical matches.  Delete them? [Y/n]"
IdenticalsAnswer(answer) ==
    /\ pc = "identicals_prompt"
    /\ IF yes(answer)
       THEN LET after == remove_all(fs, trash, todelete)
            IN  /\ fs' = after.fs
                /\ trash' = after.trash
                /\ identicals' = <<>>
                /\ resolved' = resolved \cup
                      { g \in Range(identicals) :
                          \A i \in 2 .. Len(g) :
                             /\ Exists(fs, split_first(g[i]))
                             /\ ~Exists(after.fs, split_first(g[i])) }
       ELSE UNCHANGED <<fs, trash, identicals, resolved>>
    /\ declined' = (declined /\ ~yes(answer))
    /\ pc' = "classify"
    /\ UNCHANGED <<notInTriage, disk_report, failure, similars, todelete, samesize,
                   diffsize, others, asked, run, first>>

\* The loop over similars; Image.open raises FileNotFoundError when the
\* string it is given names no file.
Classify ==
    /\ pc = "classify"
    /\ LET c == classify_all(fs, similars,
                             [samesize |-> {}, diffsize |-> {}, others |-> <<>>,
                              raised |-> FALSE])
       IN  /\ samesize' = c.samesize
           /\ diffsize' = c.diffsize
           /\ others' = c.others
           /\ pc' = IF c.raised THEN "raised" ELSE "diffsize"
           /\ failure' = IF c.raised THEN [stage |-> "Image.open"] ELSE failure
    /\ UNCHANGED <<notInTriage, fs, disk_report, identicals, trash, similars, todelete,
                   asked, run, resolved, declined, first>>

\* The prompt of one pair in a loop over a set of pairs; on a yes the file
\* `remove` goes.  removefile lets FileNotFoundError through.
PairAnswer(pair, remove, answer) ==
    /\ asked' = asked \cup {<<pair, yes(answer)>>}
    /\ declined' = (declined /\ ~yes(answer))
    /\ IF ~yes(answer)
       THEN /\ others' = keep_for_later(others, pair)
            /\ UNCHANGED <<fs, trash, resolved, pc, failure>>
       ELSE /\ fs' = fs_after_remove(fs, trash, remove)
            /\ trash' = trash_after_remove(fs, trash, remove)
            /\ resolved' = IF removefile_outcome(fs, trash, remove) = "moved"
                           THEN resolved \cup {pair} ELSE resolved
            /\ pc' = IF removefile_outcome(fs, trash, remove) = "missing"
                     THEN "raised" ELSE pc
            /\ failure' = IF removefile_outcome(fs, trash, remove) = "missing"
                          THEN [stage |-> "removefile"] ELSE failure
            /\ UNCHANGED others
    /\ UNCHANGED <<notInTriage, disk_report, identicals, similars, todelete, samesize,
                   diffsize, run, first>>

\* The pairs a loop has been through.
AskedPairs == { a[1] : a \in asked }

\* "These pictures are similar but of different size.  Delete the smaller
\* one? [Y/n]": removefile(f1)
DiffsizeAnswer(pair, answer) ==
    /\ pc = "diffsize"
    /\ pair \in diffsize \ AskedPairs
    /\ PairAnswer(pair, pair[1], answer)

\* The loop over diffsize is over.
DiffsizeDone ==
    /\ pc = "diffsize"
    /\ diffsize \ AskedPairs = {}
    /\ pc' = "samesize"
    /\ UNCHANGED <<notInTriage, fs, disk_report, identicals, failure, triageVars>>

\* "These pictures are similar and have the same size.  Delete the heavier
\* one? [Y/n]": removefile(f2)
SamesizeAnswer(pair, answer) ==
    /\ pc = "samesize"
    /\ pair \in samesize \ AskedPairs
    /\ PairAnswer(pair, pair[2], answer)

\* The loop over samesize is over: store_report(identicals, others), the
\* list of what still needs attention is printed, return 0.
StoreAndReturn ==
    /\ pc = "samesize"
    /\ samesize \ AskedPairs = {}
    /\ disk_report' = Json([identicals |-> identicals, similars |-> others])
    /\ pc' = "returned"
    /\ UNCHANGED <<notInTriage, fs, identicals, failure, triageVars>>

\* input() is waiting for an answer.
AtPrompt ==
    \/ pc = "trash" /\ trash # {}
    \/ pc = "identicals_prompt"
    \/ pc = "diffsize" /\ diffsize \ AskedPairs # {}
    \/ pc = "samesize" /\ samesize \ AskedPairs # {}

\* The user interrupts a prompt: input() raises KeyboardInterrupt (or
\* EOFError), which interactive does not catch.
Cancel ==
    /\ AtPrompt
    /\ pc' = "raised"
    /\ failure' = [stage |-> "input"]
    /\ UNCHANGED <<notInTriage, fs, disk_report, identicals, triageVars>>

\* The command has ended and interactive is started again.
RunAgain ==
    /\ pc \in {"returned", "raised", "no_report"}
    /\ run < MaxRuns
    /\ run' = run + 1
    /\ first' = IF run = 1
                THEN [pc |-> pc, others |-> others, report |-> disk_report,
                      fs |-> fs, declined |-> declined]
                ELSE first
    /\ pc' = "interactive"
    /\ failure' = NoFailure
    /\ identicals' = <<>>
    /\ similars' = <<>>
    /\ todelete' = <<>>
    /\ samesize' = {}
    /\ diffsize' = {}
    /\ others' = <<>>
    /\ asked' = {}
    /\ previous' = <<disk_cache, disk_report>>
    /\ UNCHANGED <<clVars, disk_cache, globalVars, files, hashes, uniques, phashes,
                   pairs, pending, results, similaritysets, ncc_calls,
                   fs, disk_report, trash, resolved, declined>>

NextTriage ==
    \/ LoadReport
    \/ TrashIsEmpty
    \/ \E answer \in Answers : TrashAnswer(answer)
    \/ MarkIdenticals
    \/ \E answer \in Answers : IdenticalsAnswer(answer)
    \/ Classify
    \/ \E pair \in diffsize, answer \in Answers : DiffsizeAnswer(pair, answer)
    \/ DiffsizeDone
    \/ \E pair \in samesize, answer \in Answers : SamesizeAnswer(pair, answer)
    \/ StoreAndReturn
    \/ Cancel
    \/ RunAgain

SpecTriage == InitTriage /\ [][NextTriage]_vars

(***************************************************************************)
(* Properties of the Clusterer.                                            *)
(***************************************************************************)
IsPartitionOf(sets, universe) ==
    /\ \A s \in sets : s # {}
    /\ \A s \in sets, t \in sets : s # t => s \cap t = {}
    /\ UNION sets = universe

\* C1: after any sequence of add_singular/add_pair calls, compile() is a
\* partition of the set of keys ever passed to either operation: its sets are
\* non-empty, pairwise disjoint, they cover exactly the registered keys, and
\* every registered key lies in exactly one of them.
C1_CompileIsPartition ==
    /\ IsPartitionOf(compile(clusterer), registered)
    /\ \A k \in registered :
          Cardinality({s \in compile(clusterer) : k \in s}) = 1

\* The last call merged two different clusters into one of three keys.
C1_Witness ==
    /\ last_call.op = "add_pair"
    /\ last_call.a \in DOMAIN last_call.before.d
    /\ last_call.b \in DOMAIN last_call.before.d
    /\ last_call.before.d[last_call.a] # last_call.before.d[last_call.b]
    /\ \E s \in compile(clusterer) : Cardinality(s) >= 3

\* The cluster of key k in Clusterer c, as a set of keys ({k} when k is new).
ClusterOf(c, k) == IF k \in DOMAIN c.d THEN c.heap[c.d[k]] ELSE {k}

\* C2: no stale aliasing.  Every member m of the set d[k] resolves to the
\* very same set object as k; after add_pair(a, b) every member of the former
\* clusters of a and of b resolves to one object, and no key resolves to the
\* object that the merge superseded.
C2_NoStaleAliasing ==
    /\ \A k \in DOMAIN clusterer.d :
          \A m \in clusterer.heap[clusterer.d[k]] :
             m \in DOMAIN clusterer.d /\ clusterer.d[m] = clusterer.d[k]
    /\ last_call.op = "add_pair" =>
          LET before == last_call.before
              a == last_call.a
              b == last_call.b
          IN  /\ \A m \in ClusterOf(before, a) \cup ClusterOf(before, b) :
                    m \in DOMAIN clusterer.d /\ clusterer.d[m] = clusterer.d[a]
              /\ (a \in DOMAIN before.d /\ b \in DOMAIN before.d
                     /\ before.d[a] # before.d[b])
                  => \A k \in DOMAIN clusterer.d : clusterer.d[k] # before.d[b]

\* The last call merged a singleton cluster with a cluster of two keys.
C2_Witness ==
    /\ last_call.op = "add_pair"
    /\ last_call.a \in DOMAIN last_call.before.d
    /\ last_call.b \in DOMAIN last_call.before.d
    /\ last_call.before.d[last_call.a] # last_call.before.d[last_call.b]
    /\ Cardinality(ClusterOf(last_call.before, last_call.b)) >= 2
    /\ \A m \in ClusterOf(last_call.before, last_call.b) :
          clusterer.d[m] = clusterer.d[last_call.a]

(***************************************************************************)
(* Properties of a scan.                                                   *)
(***************************************************************************)
\* The first pool delivered every file and the matching stage has run.
Matched == pc \notin {"start", "hashing"} /\ failure.stage # "File"

\* The scan compiled its results and stored the cache and the report.
Compiled == pc = "done"

\* The File a string of the report stands for.
FileOfStr(q) == CHOOSE f \in files : str(f) = q

\* The cache the scan loaded.
LoadedCache == IF Loadable(previous[1]) THEN previous[1].value ELSE EmptyMap

C4_KeeperIsSmallestPath ==
    Matched =>
        /\ DOMAIN hashes = {f.hash : f \in files}
        /\ \A h \in DOMAIN hashes :
              /\ Cardinality({u \in uniques : u.hash = h}) = 1
              /\ \A u \in uniques :
                    u.hash = h =>
                       /\ u \in hashes[h]
                       /\ \A g \in hashes[h] : g # u => LexLess(u.path, g.path)
        /\ UNION phashes = {u \in uniques : u.isimage}
        /\ Compiled =>
              \A i \in 1 .. Len(identicals) :
                 /\ FileOfStr(identicals[i][1]) \in uniques
                 /\ \A a \in 2 .. Len(identicals[i]) :
                       /\ FileOfStr(identicals[i][a]) \notin uniques
                       /\ FileOfStr(identicals[i][a]) \notin UNION phashes

\* A finished scan in which two images had one content, one of them went on
\* to match_phashes, and the group was reported.
C4_Witness ==
    /\ pc = "done"
    /\ Len(identicals) = 1
    /\ \E h \in DOMAIN hashes :
          /\ Cardinality(hashes[h]) >= 2
          /\ \A f \in hashes[h] : f.isimage
          /\ \E u \in UNION phashes : u \in hashes[h]
    /\ Cardinality(uniques) >= 2

\* The images that reach match_phashes.
Images == {u \in uniques : u.isimage}

\* sets1 refines sets2: every set of sets1 lies within a set of sets2.
Refines(sets1, sets2) == \A g \in sets1 : \E g2 \in sets2 : g \subseteq g2

\* The state right after the matching stage.
JustMatched == pc = "comparing" /\ results = <<>> /\ pending = 1 .. Len(pairs)

\* C5: raising the Hamming threshold is monotonic.  For the images of the
\* scan, in whatever order the loops read them, every group that
\* match_phashes forms at threshold t lies within a group it forms at any
\* threshold t2 >= t; and the groups the scan formed lie within those of
\* every threshold above the scan's.
C5_ThresholdMonotonic ==
    JustMatched =>
        LET formed == { <<t, match_phashes(o, t)>> :
                           o \in Orderings(Images), t \in 0 .. PhashBits }
        IN  /\ \A g1 \in formed, g2 \in formed :
                  g1[1] <= g2[1] => Refines(g1[2], g2[2])
            /\ \A g2 \in formed :
                  PHASH_DIFF_BITS <= g2[1] => Refines(phashes, g2[2])

\* A scan at threshold 1 that grouped three images, where threshold 0 groups
\* only two of them and leaves the third alone.
C5_Witness ==
    /\ JustMatched
    /\ PHASH_DIFF_BITS = 1
    /\ Cardinality(Images) = 3
    /\ phashes = {Images}
    /\ \E o \in Orderings(Images) :
          {Cardinality(g) : g \in match_phashes(o, 0)} = {1, 2}

\* The results the scan collected, as a set.
Collected == Range(results)

\* The files of a result.
PairOf(r) == {r[1], r[2]}

\* C6: transitive closure of the confirmed pairs.  Whenever the collected
\* results hold (A, B) and (B, C), both scored 0.9 or more, and (A, C) was
\* not compared or scored less, one similar group of the report holds the
\* three of them.
C6_TransitiveClosure ==
    Compiled =>
        \A r1 \in Collected, r2 \in Collected :
           ( /\ r1[3] >= 90
             /\ r2[3] >= 90
             /\ Cardinality(PairOf(r1) \cap PairOf(r2)) = 1
             /\ \A r3 \in Collected :
                   PairOf(r3) = (PairOf(r1) \cup PairOf(r2)) \ (PairOf(r1) \cap PairOf(r2))
                      => r3[3] < 90 )
           => \E i \in 1 .. Len(similaritysets) :
                 \A f \in PairOf(r1) \cup PairOf(r2) :
                    str(f) \in Range(similaritysets[i])

\* A finished scan that collected (A, B) and (B, C) at 0.9 and (A, C) below,
\* and reported one similar group of three.
C6_Witness ==
    /\ pc = "done"
    /\ Len(results) = 3
    /\ Cardinality({r \in Collected : r[3] >= 90}) = 2
    /\ Cardinality({r \in Collected : r[3] < 90}) = 1
    /\ Len(similaritysets) = 1
    /\ Len(similaritysets[1]) = 3
    /\ disk_report.value.similars = similaritysets

\* C7: a cache hit means no external call.  ncc_score is never called on a
\* pair whose key is in the loaded cache, whatever score is stored under it
\* (0.0 included), and the result of such a pair is the stored score.
C7_CacheHitNoCall ==
    /\ \A key \in ncc_calls : key \notin DOMAIN LoadedCache
    /\ \A r \in Collected :
          ncc_cache_key(r[1], r[2]) \in DOMAIN LoadedCache
             => r[3] = LoadedCache[ncc_cache_key(r[1], r[2])]

\* C8: atomic persistence.  When the process dies or the write fails during
\* store_cache or store_report, the file being written, if it was valid
\* before the scan, still holds its previous content.
C8_AtomicPersistence ==
    /\ (failure.stage = "store_cache" /\ Loadable(previous[1]))
          => disk_cache = previous[1]
    /\ (failure.stage = "store_report" /\ Loadable(previous[2]))
          => disk_report = previous[2]

\* C9: an unreadable file does not abort the scan.  When File(path) raises
\* for one listed path the scan does not end with the exception.
C9_UnreadableFileSkipped == failure.stage = "File" => pc # "raised"

\* Pair i of the list has a collected result.
HasResult(i) == \E r \in Collected : r[1] = pairs[i][1] /\ r[2] = pairs[i][2]

\* C10: a failure of ncc_compare on one pair degrades only that pair.  Once
\* the results are compiled, every other candidate pair has a collected
\* result and its score is in the cache.
C10_PairFailureIsLocal ==
    (Compiled /\ failure.stage = "ncc_compare") =>
        \A i \in 1 .. Len(pairs) :
           i # failure.pair =>
              /\ HasResult(i)
              /\ ncc_cache_key(pairs[i][1], pairs[i][2]) \in DOMAIN CACHE

\* C11: cache write discipline during a scan.  No step of a comparison
\* worker changes CACHE: after load_cache, CACHE changes only in the step of
\* the coordinating flow that ends the comparison phase (no result is
\* delivered after it); CACHE_FILE is written in that step only, hence once,
\* and what is written is the cache after its last mutation.
C11_CacheWriteDiscipline ==
    [][ /\ (CACHE' # CACHE /\ pc # "start") =>
              (pc = "comparing" /\ pc' = "done" /\ results' = results)
        /\ disk_cache' # disk_cache => (pc = "comparing" /\ pc' = "done")
        /\ (pc # "done" /\ pc' = "done") => disk_cache' = Json(CACHE')
        /\ pc = "done" => (CACHE' = CACHE /\ disk_cache' = disk_cache) ]_vars

\* A scan with a pool of workers that collected two results, mutated the
\* cache it had loaded and stored it.
C11_Witness ==
    /\ pc = "done"
    /\ PROCESS_COUNT > 1
    /\ Len(results) >= 2
    /\ CACHE # LoadedCache
    /\ ncc_calls # {}
    /\ disk_cache = Json(CACHE)

\* The files joined to a file of S by a path of edges.
RECURSIVE ReachableFrom(_, _)
ReachableFrom(S, edges) ==
    LET T == S \cup UNION {e \in edges : e \cap S # {}}
    IN  IF T = S THEN S ELSE ReachableFrom(T, edges)

\* The connected components of the graph with the given edges.
Components(edges) == { ReachableFrom({n}, edges) : n \in UNION edges }

\* The pairs the scan collected with a score of 0.9 or more.
ConfirmedEdges == { PairOf(r) : r \in {q \in Collected : q[3] >= 90} }

\* The paths of a set of files, as the report writes them.
Strs(fileset) == { str(f) : f \in fileset }

\* C12: the report does not depend on the order of delivery.  In whatever
\* order the Files were delivered and read, and in whatever order the results
\* were collected, the identical groups are the sets of two or more files
\* with one content hash, and the similar groups are the connected
\* components of the graph whose edges are the collected pairs that scored
\* 0.9 or more; no group is listed twice.
C12_ReportIgnoresOrder ==
    Compiled =>
        /\ { Range(identicals[i]) : i \in 1 .. Len(identicals) }
              = { Strs(g) : g \in { {f \in files : f.hash = h.hash} : h \in files }
                          \ { {h} : h \in files } }
        /\ Len(identicals)
              = Cardinality({ Range(identicals[i]) : i \in 1 .. Len(identicals) })
        /\ { Range(similaritysets[i]) : i \in 1 .. Len(similaritysets) }
              = { Strs(g) : g \in Components(ConfirmedEdges) }
        /\ Len(similaritysets)
              = Cardinality({ Range(similaritysets[i]) : i \in 1 .. Len(similaritysets) })
        /\ \A i \in 1 .. Len(similaritysets) : Len(similaritysets[i]) >= 2

\* A scan with a pool whose first collected result is not the first pair of
\* the list and scored below 0.9, and which reported one similar group.
C12_Witness ==
    /\ pc = "done"
    /\ PROCESS_COUNT > 1
    /\ Len(results) = 3
    /\ <<results[1][1], results[1][2]>> # pairs[1]
    /\ results[1][3] < 90
    /\ Len(similaritysets) = 1

(***************************************************************************)
(* Properties of interactive.                                              *)
(***************************************************************************)
\* The report this run of interactive loaded.
LoadedReport == previous[2].value

\* The file a string of the report stands for is in the tree.
InTree(file) == Exists(fs, split_first(file))

\* The sum of the sizes of the groups, less one for each group.
RECURSIVE MembersButFirst(_)
MembersButFirst(groups) ==
    IF groups = <<>> THEN 0
    ELSE Len(Head(groups)) - 1 + MembersButFirst(Tail(groups))

\* C13: identical groups in triage.  Once todelete is built, and before any
\* answer about it, it holds every member but the first of every identical
\* group of the loaded report and nothing else, so no first member (keeper);
\* and when the deletion is confirmed the keepers stay in the tree while the
\* marked files leave it (unless TRASH_DIR holds a file of the same name).
C13_IdenticalsMarked ==
    pc \in {"identicals_prompt", "classify"} =>
        /\ \A i \in 1 .. Len(LoadedReport.identicals) :
              /\ \A a \in 2 .. Len(LoadedReport.identicals[i]) :
                    LoadedReport.identicals[i][a] \in Range(todelete)
              /\ LoadedReport.identicals[i][1] \notin Range(todelete)
        /\ Len(todelete) = MembersButFirst(LoadedReport.identicals)
        /\ (pc = "classify" /\ identicals = <<>> /\ run = 1) =>
              /\ \A i \in 1 .. Len(LoadedReport.identicals) :
                    InTree(LoadedReport.identicals[i][1])
              /\ \A i \in 1 .. Len(todelete) :
                    \/ ~InTree(todelete[i])
                    \/ basename(split_first(todelete[i])) \in trash

\* The group of 'a b.png' and a.jpg was marked and the deletion confirmed:
\* a.jpg is in the trash and 'a b.png', the keeper, is still in the tree.
C13_Witness ==
    /\ pc = "classify"
    /\ run = 1
    /\ identicals = <<>>
    /\ todelete = << <<97, 46, 106, 112, 103>> >>
    /\ LoadedReport.identicals[1][1] = <<39, 97, 32, 98, 46, 112, 110, 103, 39>>
    /\ <<97, 46, 106, 112, 103>> \in trash
    /\ InTree(LoadedReport.identicals[1][1])
    /\ ~InTree(todelete[1])

\* The loop over similars has just ended: the tree is as Image.open saw it.
JustClassified == pc = "diffsize" /\ asked = {}

\* The similar groups of two of the loaded report.
LoadedPairs == { g \in Range(similars) : Len(g) = 2 }

\* Pixel dimensions and byte size of the file a string of the report names.
DimensionsOf(file) == ImageSize(ContentAt(fs, split_first(file)))
BytesOf(file) == ByteSize(ContentAt(fs, split_first(file)))

InALoop(g) == \E p \in samesize \cup diffsize : {p[1], p[2]} = Range(g)

\* The user declined the deletion proposed for the group.
Declined(g) == \E a \in asked : ~a[2] /\ {a[1][1], a[1][2]} = Range(g)

\* The stored report holds a similar group with the members of g.
StoredWithSameMembers(g) ==
    /\ Loadable(disk_report)
    /\ \E j \in 1 .. Len(disk_report.value.similars) :
          /\ Range(disk_report.value.similars[j]) = Range(g)
          /\ Len(disk_report.value.similars[j]) = Len(g)

\* C16: deferral.  The classification puts in no loop, and in others, every
\* similar group of three or more and every group of two whose files have
\* neither equal dimensions nor one strictly smaller in both axes; such a
\* group, and every pair whose proposed deletion is declined, keeps all its
\* files, and is in the report interactive writes, with the same members.
C16_DeferredGroupsStay ==
    /\ JustClassified =>
          \A g \in Range(similars) :
             ( \/ Len(g) >= 3
               \/ /\ Len(g) = 2
                  /\ DimensionsOf(g[1]) # DimensionsOf(g[2])
                  /\ ~( /\ DimensionsOf(g[1])[1] < DimensionsOf(g[2])[1]
                        /\ DimensionsOf(g[1])[2] < DimensionsOf(g[2])[2] )
                  /\ ~( /\ DimensionsOf(g[2])[1] < DimensionsOf(g[1])[1]
                        /\ DimensionsOf(g[2])[2] < DimensionsOf(g[1])[2] ) )
             => (g \in Range(others) /\ ~InALoop(g))
    /\ pc \in {"diffsize", "samesize", "returned"} =>
          \A g \in Range(similars) :
             (~InALoop(g) \/ Declined(g)) =>
                /\ \A m \in Range(g) : InTree(m)
                /\ pc = "returned" => StoredWithSameMembers(g)

\* interactive returned after the user declined the deletion proposed for a
\* pair it had put in samesize; the pair is in the report it wrote.
C16_Witness ==
    /\ pc = "returned"
    /\ run = 1
    /\ Len(similars) = 1
    /\ Declined(similars[1])
    /\ samesize # {}
    /\ StoredWithSameMembers(similars[1])
    /\ Len(others) = 1

\* The stored report still lists the group (an identical group, or a similar
\* group with these members).
StillReported(g) ==
    /\ Loadable(disk_report)
    /\ \/ g \in Range(disk_report.value.identicals)
       \/ \E j \in 1 .. Len(disk_report.value.similars) :
             Range(disk_report.value.similars[j]) = Range(g)

\* C17: interruption commits the decisions made.  When a prompt of
\* interactive is interrupted, no group resolved before it (its file moved
\* to the trash) is in the stored report any more.
C17_InterruptionCommits ==
    (pc = "raised" /\ failure.stage = "input") =>
        \A g \in resolved : ~StillReported(g)

\* C18: idempotent triage.  When interactive runs twice in a row, every
\* prompt of both runs being declined, the second run leaves the same list
\* of groups needing attention as the first and stores the same report.
C18_IdempotentTriage ==
    (run = 2 /\ pc = "returned" /\ declined /\ first.pc = "returned") =>
        /\ others = first.others
        /\ disk_report = first.report

\* The candidate groups of the perceptual pre-clustering.
CandidateGroups == group_similars(phashes)

\* Files f and g are members of one candidate group.
InOneCandidateGroup(f, g) == \E c \in CandidateGroups : f \in c /\ g \in c

\* The k-th and the l-th entries of a list of pairs are the same unordered pair.
SameUnorderedPair(list, k, l) == {list[k][1], list[k][2]} = {list[l][1], list[l][2]}

\* The strings of the files that an identical group has beside its keeper.
NonKeepers == UNION { {g[k] : k \in 2 .. Len(g)} : g \in Range(identicals) }

\* C20: every similar group of the report lies inside one candidate group of
\* the perceptual pre-clustering; only files of one candidate group are ever
\* compared; no unordered pair is listed for comparison, or compared, twice;
\* the similar groups are pairwise disjoint; and no similar group holds a
\* member of an identical group other than its keeper.
C20_SimilarsWithinCandidates ==
    /\ \A i \in 1 .. Len(pairs) : InOneCandidateGroup(pairs[i][1], pairs[i][2])
    /\ \A i \in 1 .. Len(results) : InOneCandidateGroup(results[i][1], results[i][2])
    /\ \A k, l \in 1 .. Len(pairs) : SameUnorderedPair(pairs, k, l) => k = l
    /\ \A k, l \in 1 .. Len(results) : SameUnorderedPair(results, k, l) => k = l
    /\ Compiled =>
          /\ \A i \in 1 .. Len(similaritysets) :
                \E c \in CandidateGroups :
                    Range(similaritysets[i]) \subseteq {str(f) : f \in c}
          /\ \A i, j \in 1 .. Len(similaritysets) :
                i # j => Range(similaritysets[i]) \cap Range(similaritysets[j]) = {}
          /\ \A i \in 1 .. Len(similaritysets) :
                Range(similaritysets[i]) \cap NonKeepers = {}

\* A scan of five pictures with two candidate groups and an identical group
\* ended with both candidate pairs compared and reported as similar.
C20_Witness ==
    /\ Compiled
    /\ Cardinality(CandidateGroups) = 2
    /\ Len(results) = 2
    /\ Len(similaritysets) = 2
    /\ NonKeepers # {}

====
